---- MODULE Spec2Model ----
(***************************************************************************)
(* Model of the two Duffel MCP services (mcp_duffel_flights and            *)
(* mcp_duffel_stays): the JSON-RPC dispatcher handle_request, the provider *)
(* call chain of search_flights / search_stays, the response normalizers   *)
(* parse_flight_offer / parse_stay_result and the text formatters.         *)
(*                                                                         *)
(* JSON values (serde_json::Value) are tagged records; an object is a      *)
(* function from its keys to values.  Strings are abstract tokens.         *)
(***************************************************************************)
EXTENDS Integers, Sequences, FiniteSets, TLC

(***************************************************************************)
(* Bounds of the model.                                                    *)
(***************************************************************************)
\* longest provider result array that is enumerated
MaxItems == 12
\* number of request slots (concurrently handled requests)
MaxReq == 2
\* the counter of completed requests saturates here
MaxHandled == 1

(***************************************************************************)
(* Program constants.                                                      *)
(***************************************************************************)
\* .take(10) in both normalizer loops
ResultLimit == 10
\* the raw provider response is logged cut to its first 1000 bytes
LogLimit == 1000
InvalidParams == -32602
MethodNotFound == -32601
ProviderFailure == -32000

(***************************************************************************)
(* serde_json::Value and Option.                                           *)
(***************************************************************************)
Null == [t |-> "null"]
Str(s) == [t |-> "str", v |-> s]
\* an integer that fits i32
Num(n) == [t |-> "num", n |-> n]
\* an integer beyond the range of i32
BigNum == [t |-> "bignum"]
Arr(a) == [t |-> "arr", a |-> a]
Obj(f) == [t |-> "obj", f |-> f]
\* a non-integer number, kept as its decimal literal
Float(lit) == [t |-> "float", lit |-> lit]

None == [some |-> FALSE]
Some(x) == [some |-> TRUE, v |-> x]

\* value["key"]: Null when the value is not an object or lacks the key
Get(val, key) == IF val.t = "obj" /\ key \in DOMAIN val.f THEN val.f[key] ELSE Null
AsStr(val) == IF val.t = "str" THEN Some(val.v) ELSE None
AsArray(val) == IF val.t = "arr" THEN Some(val.a) ELSE None
AsF64(val) == IF val.t = "num" THEN Some(val.n) ELSE None

\* construction of objects that lack or replace a key
Del(o, key) == Obj([x \in (DOMAIN o.f) \ {key} |-> o.f[x]])
Put(o, key, val) == Obj([x \in (DOMAIN o.f) \cup {key} |-> IF x = key THEN val ELSE o.f[x]])

Min(a, b) == IF a <= b THEN a ELSE b
\* the loop without its .take(10)
TakeAll(s, n) == s
\* the cut one item too late
TakeOneMore(s, n) == SubSeq(s, 1, Min(n + 1, Len(s)))
Take(s, n) == SubSeq(s, 1, Min(n, Len(s)))
\* usize -> i32 cast (as i32) of a length: a length beyond i32::MAX wraps to
\* length - 2^32 (lengths below 2^32)
I32Max == 2147483647
AsI32(n) == IF n <= I32Max THEN n ELSE ((n - I32Max) - I32Max) - 2

(***************************************************************************)
(* Flights: parse_flight_offer.  The result is Some(offer), None, or the   *)
(* panic of indexing an empty Vec with [0].                                *)
(***************************************************************************)
ParsedNone == [k |-> "none"]
ParsedPanic == [k |-> "panic"]
ParsedSome(o) == [k |-> "some", offer |-> o]

ParseFlightOffer(offer) ==
    LET id == AsStr(Get(offer, "id"))
        total_amount == AsStr(Get(offer, "total_amount"))
        currency == AsStr(Get(offer, "total_currency"))
        slices == AsArray(Get(offer, "slices"))
    IN
    IF ~id.some THEN ParsedNone
    ELSE IF ~total_amount.some THEN ParsedNone
    ELSE IF ~currency.some THEN ParsedNone
    ELSE IF ~slices.some THEN ParsedNone
    ELSE IF Len(slices.v) = 0 THEN ParsedPanic
    ELSE
    LET first_slice == slices.v[1]
        segments == AsArray(Get(first_slice, "segments"))
    IN
    IF ~segments.some THEN ParsedNone
    ELSE IF Len(segments.v) = 0 THEN ParsedPanic
    ELSE
    LET first_segment == segments.v[1]
        departure_time == AsStr(Get(first_segment, "departing_at"))
        arrival_time == AsStr(Get(first_segment, "arriving_at"))
        duration == AsStr(Get(first_slice, "duration"))
        marketing_carrier == Get(first_segment, "marketing_carrier")
        airline == AsStr(Get(marketing_carrier, "name"))
        flight_number == AsStr(Get(first_segment, "marketing_carrier_flight_number"))
        aircraft == AsStr(Get(Get(first_segment, "aircraft"), "name"))
        stops == AsI32(Len(segments.v)) - 1
    IN
    IF ~departure_time.some THEN ParsedNone
    ELSE IF ~arrival_time.some THEN ParsedNone
    ELSE IF ~duration.some THEN ParsedNone
    ELSE IF ~airline.some THEN ParsedNone
    ELSE IF ~flight_number.some THEN ParsedNone
    ELSE ParsedSome([id |-> id.v,
                     price |-> total_amount.v,
                     currency |-> currency.v,
                     departure_time |-> departure_time.v,
                     arrival_time |-> arrival_time.v,
                     duration |-> duration.v,
                     airline |-> airline.v,
                     flight_number |-> flight_number.v,
                     aircraft |-> aircraft,
                     stops |-> stops])

\* the loop of search_flights over offers_array.iter().take(10)
RECURSIVE FlightLoop(_, _)
FlightLoop(items, acc) ==
    IF items = <<>> THEN [k |-> "ok", offers |-> acc]
    ELSE LET p == ParseFlightOffer(Head(items))
         IN IF p.k = "panic" THEN [k |-> "panic"]
            ELSE FlightLoop(Tail(items),
                            IF p.k = "some" THEN Append(acc, p.offer) ELSE acc)


(***************************************************************************)
(* Results of the fallible operations (anyhow::Result): Ok, Err carrying   *)
(* the error's message and detail text, or a panic.                        *)
(***************************************************************************)
Ok(x) == [k |-> "ok", v |-> x]
Err(msg, detail) == [k |-> "err", e |-> [msg |-> msg, detail |-> detail]]
Panic == [k |-> "panic"]

\* total_results taken from the offers kept instead of the provider's array
NormalizeFlightsCountKept(offers_data, offer_request_id) ==
    LET offers_array == AsArray(Get(offers_data, "data"))
    IN IF ~offers_array.some THEN Err("No offers data in response", "")
       ELSE LET loop == FlightLoop(Take(offers_array.v, ResultLimit), <<>>)
            IN IF loop.k = "panic" THEN Panic
               ELSE Ok([offers |-> loop.offers,
                        total_results |-> AsI32(Len(loop.offers)),
                        search_id |-> offer_request_id])

\* search_flights from the decoded body of the offers response on
NormalizeFlights(offers_data, offer_request_id) ==
    LET offers_array == AsArray(Get(offers_data, "data"))
    IN IF ~offers_array.some THEN Err("No offers data in response", "")
       ELSE LET loop == FlightLoop(Take(offers_array.v, ResultLimit), <<>>)
            IN IF loop.k = "panic" THEN Panic
               ELSE Ok([offers |-> loop.offers,
                        total_results |-> AsI32(Len(offers_array.v)),
                        search_id |-> offer_request_id])

(***************************************************************************)
(* Stays: parse_stay_result and parse_duffel_stays_response.               *)
(***************************************************************************)
\* arr.iter().filter_map(|a| a["description"].as_str())
RECURSIVE Descriptions(_)
Descriptions(arr) ==
    IF arr = <<>> THEN <<>>
    ELSE LET d == AsStr(Get(Head(arr), "description"))
         IN (IF d.some THEN <<d.v>> ELSE <<>>) \o Descriptions(Tail(arr))

UnwrapOr(opt, default) == IF opt.some THEN opt.v ELSE default

\* the placeholder used for an empty array as well
AmenitiesDefaultOnEmpty(accommodation) ==
    LET arr == AsArray(Get(accommodation, "amenities"))
    IN IF arr.some /\ arr.v # <<>> THEN Descriptions(arr.v) ELSE <<"WiFi">>

\* the amenities expression of parse_stay_result
Amenities(accommodation) ==
    LET arr == AsArray(Get(accommodation, "amenities"))
    IN IF arr.some THEN Descriptions(arr.v) ELSE <<"WiFi">>

\* the rating read with ? like the id and the name
ParseStayResultDropUnrated(result, request) ==
    LET accommodation == Get(result, "accommodation")
        id == AsStr(Get(result, "id"))
        hotel_name == AsStr(Get(accommodation, "name"))
        hotel_rating == AsF64(Get(accommodation, "rating"))
        location_name ==
            UnwrapOr(AsStr(Get(Get(Get(accommodation, "location"), "address"), "city_name")),
                     request.location)
        total_amount == UnwrapOr(AsStr(Get(result, "cheapest_rate_total_amount")), "0.00")
        currency == UnwrapOr(AsStr(Get(result, "cheapest_rate_currency")), "USD")
    IN
    IF ~id.some THEN ParsedNone
    ELSE IF ~hotel_name.some THEN ParsedNone
    ELSE IF ~hotel_rating.some THEN ParsedNone
    ELSE ParsedSome([id |-> id.v,
                     hotel_name |-> hotel_name.v,
                     hotel_rating |-> hotel_rating,
                     location |-> location_name,
                     total_amount |-> total_amount,
                     currency |-> currency,
                     check_in_date |-> request.check_in_date,
                     check_out_date |-> request.check_out_date,
                     room_type |-> None,
                     amenities |-> Amenities(accommodation),
                     cancellation_policy |-> None])
ParseStayResult(result, request) ==
    LET accommodation == Get(result, "accommodation")
        id == AsStr(Get(result, "id"))
        hotel_name == AsStr(Get(accommodation, "name"))
        hotel_rating == AsF64(Get(accommodation, "rating"))
        location_name ==
            UnwrapOr(AsStr(Get(Get(Get(accommodation, "location"), "address"), "city_name")),
                     request.location)
        total_amount == UnwrapOr(AsStr(Get(result, "cheapest_rate_total_amount")), "0.00")
        currency == UnwrapOr(AsStr(Get(result, "cheapest_rate_currency")), "USD")
    IN
    IF ~id.some THEN ParsedNone
    ELSE IF ~hotel_name.some THEN ParsedNone
    ELSE ParsedSome([id |-> id.v,
                     hotel_name |-> hotel_name.v,
                     hotel_rating |-> hotel_rating,
                     location |-> location_name,
                     total_amount |-> total_amount,
                     currency |-> currency,
                     check_in_date |-> request.check_in_date,
                     check_out_date |-> request.check_out_date,
                     room_type |-> None,
                     amenities |-> Amenities(accommodation),
                     cancellation_policy |-> None])

\* the loop of parse_duffel_stays_response over search_results.iter().take(10)
RECURSIVE StayLoop(_, _, _)
StayLoop(items, request, acc) ==
    IF items = <<>> THEN acc
    ELSE LET p == ParseStayResult(Head(items), request)
         IN StayLoop(Tail(items), request,
                     IF p.k = "some" THEN Append(acc, p.offer) ELSE acc)

ParseDuffelStaysResponse(response_data, request) ==
    LET search_results == AsArray(Get(Get(response_data, "data"), "results"))
    IN IF ~search_results.some THEN Err("No search results found in API response", "")
       ELSE Ok([offers |-> StayLoop(Take(search_results.v, ResultLimit), request, <<>>),
                total_results |-> AsI32(Len(search_results.v)),
                search_id |-> UnwrapOr(AsStr(Get(Get(response_data, "meta"), "request_id")),
                                       "unknown"),
                location_searched |-> request.location])

(***************************************************************************)
(* The debug log of search_stays: the pretty-printed response is cut with  *)
(* &response_str[..1000], which panics when byte 1000 is inside a          *)
(* character.  The text is modelled by its byte layout, a sequence of runs *)
(* of n characters of w bytes each.                                        *)
(***************************************************************************)
RECURSIVE ByteLen(_)
ByteLen(layout) ==
    IF layout = <<>> THEN 0
    ELSE Head(layout).n * Head(layout).w + ByteLen(Tail(layout))

\* str::is_char_boundary(index) for index <= len
RECURSIVE IsCharBoundary(_, _)
IsCharBoundary(layout, index) ==
    IF layout = <<>> THEN index = 0
    ELSE LET run == Head(layout).n * Head(layout).w
         IN IF index < run THEN index % Head(layout).w = 0
            ELSE IsCharBoundary(Tail(layout), index - run)

\* TRUE when taking the truncated slice panics
LogTruncationPanics(layout) ==
    ByteLen(layout) > LogLimit /\ ~IsCharBoundary(layout, LogLimit)

(***************************************************************************)
(* serde_json::from_value into the typed search requests.  A field decoder *)
(* yields [ok, v]; Option fields accept null; a struct is decoded from an  *)
(* object (by key, unknown keys ignored) or from an array (by position).   *)
(***************************************************************************)
DecOk(x) == [ok |-> TRUE, v |-> x]
DecErr == [ok |-> FALSE]

\* a String field that takes any value
DecStringLenient(val) == DecOk(IF val.t = "str" THEN val.v ELSE "")
DecString(val) == IF val.t = "str" THEN DecOk(val.v) ELSE DecErr
DecOptString(val) ==
    IF val.t = "null" THEN DecOk(None)
    ELSE IF val.t = "str" THEN DecOk(Some(val.v))
    ELSE DecErr
DecOptI32(val) ==
    IF val.t = "null" THEN DecOk(None)
    ELSE IF val.t = "num" THEN DecOk(Some(val.n))
    ELSE DecErr

\* the value a struct visitor sees for field number i named key
Field(arguments, i, key) ==
    IF arguments.t = "obj" THEN Get(arguments, key) ELSE arguments.a[i]

\* objects always have the struct's shape; an array must have one element per field
StructShape(arguments, nfields) ==
    \/ arguments.t = "obj"
    \/ arguments.t = "arr" /\ Len(arguments.a) = nfields

DecodeFlightSearchRequest(arguments) ==
    IF ~StructShape(arguments, 6) THEN DecErr
    ELSE
    LET origin == DecString(Field(arguments, 1, "origin"))
        destination == DecString(Field(arguments, 2, "destination"))
        departure_date == DecString(Field(arguments, 3, "departure_date"))
        return_date == DecOptString(Field(arguments, 4, "return_date"))
        passengers == DecOptI32(Field(arguments, 5, "passengers"))
        cabin_class == DecOptString(Field(arguments, 6, "cabin_class"))
    IN IF origin.ok /\ destination.ok /\ departure_date.ok
          /\ return_date.ok /\ passengers.ok /\ cabin_class.ok
       THEN DecOk([origin |-> origin.v,
                   destination |-> destination.v,
                   departure_date |-> departure_date.v,
                   return_date |-> return_date.v,
                   passengers |-> passengers.v,
                   cabin_class |-> cabin_class.v])
       ELSE DecErr

DecodeStaySearchRequest(arguments) ==
    IF ~StructShape(arguments, 6) THEN DecErr
    ELSE
    LET location == DecString(Field(arguments, 1, "location"))
        check_in_date == DecString(Field(arguments, 2, "check_in_date"))
        check_out_date == DecString(Field(arguments, 3, "check_out_date"))
        adults == DecOptI32(Field(arguments, 4, "adults"))
        children == DecOptI32(Field(arguments, 5, "children"))
        rooms == DecOptI32(Field(arguments, 6, "rooms"))
    IN IF location.ok /\ check_in_date.ok /\ check_out_date.ok
          /\ adults.ok /\ children.ok /\ rooms.ok
       THEN DecOk([location |-> location.v,
                   check_in_date |-> check_in_date.v,
                   check_out_date |-> check_out_date.v,
                   adults |-> adults.v,
                   children |-> children.v,
                   rooms |-> rooms.v])
       ELSE DecErr

(***************************************************************************)
(* The outbound payloads.                                                  *)
(***************************************************************************)
\* for _ in 0..count { v.push(entry) }: nothing is pushed for count <= 0
\* the loop over 0..=count
RepeatOneMore(entry, count) == [i \in 1..(count + 1) |-> entry]
Repeat(entry, count) == [i \in 1..count |-> entry]

FlightPayload(request) ==
    LET passengers == Repeat(Obj([type |-> Str("adult")]), UnwrapOr(request.passengers, 1))
        outbound == Obj([origin |-> Str(request.origin),
                         destination |-> Str(request.destination),
                         departure_date |-> Str(request.departure_date)])
        slices == IF request.return_date.some
                  THEN <<outbound,
                         Obj([origin |-> Str(request.destination),
                              destination |-> Str(request.origin),
                              departure_date |-> Str(request.return_date.v)])>>
                  ELSE <<outbound>>
    IN Obj([data |-> Obj([slices |-> Arr(slices),
                          passengers |-> Arr(passengers),
                          cabin_class |-> Str(UnwrapOr(request.cabin_class, "economy"))])])

\* str::to_lowercase left out
ToLowercaseIdentity(s) == s
\* str::to_lowercase on the location names that are enumerated: a name that
\* has an upper-case letter goes to its lower-case spelling, any other name is
\* unchanged
ToLowercase(s) ==
    CASE s \in {"New York", "NEW YORK", "nEw yOrK"} -> "new york"
      [] s \in {"Nyc", "NYC", "nYc"} -> "nyc"
      [] s \in {"London", "LONDON", "lOnDoN"} -> "london"
      [] s \in {"Paris", "PARIS", "pArIs"} -> "paris"
      [] s \in {"Tokyo", "TOKYO", "tOkYo"} -> "tokyo"
      [] s \in {"Sydney", "SYDNEY", "sYdNeY"} -> "sydney"
      [] s \in {"Los Angeles", "LOS ANGELES", "lOs aNgElEs"} -> "los angeles"
      [] s \in {"La", "LA", "lA"} -> "la"
      [] s \in {"Chicago", "CHICAGO", "cHiCaGo"} -> "chicago"
      [] s \in {"Melbourne", "MELBOURNE", "mElBoUrNe"} -> "melbourne"
      [] s \in {"Dubai", "DUBAI", "dUbAi"} -> "dubai"
      [] s \in {"Singapore", "SINGAPORE", "sInGaPoRe"} -> "singapore"
      [] s \in {"Miami", "MIAMI", "mIaMi"} -> "miami"
      [] s \in {"San Francisco", "SAN FRANCISCO", "sAn fRaNcIsCo"} -> "san francisco"
      [] s \in {"Las Vegas", "LAS VEGAS", "lAs vEgAs"} -> "las vegas"
      [] s \in {"Toronto", "TORONTO", "tOrOnTo"} -> "toronto"
      [] s \in {"Berlin", "BERLIN", "bErLiN"} -> "berlin"
      [] s \in {"Rome", "ROME", "rOmE"} -> "rome"
      [] s \in {"Madrid", "MADRID", "mAdRiD"} -> "madrid"
      [] s \in {"Amsterdam", "AMSTERDAM", "aMsTeRdAm"} -> "amsterdam"
      [] s \in {"Barcelona", "BARCELONA", "bArCeLoNa"} -> "barcelona"
      [] s \in {"Atlantis"} -> "atlantis"
      [] s \in {"Lond0n"} -> "lond0n"
      [] s \in {"Paris, France"} -> "paris, france"
      [] s \in {"NewYork"} -> "newyork"
      [] OTHER -> s

\* coordinates are kept as the decimal literals of the source
GeocodeLocation(location) ==
    LET l == ToLowercase(location)
    IN CASE l \in {"new york", "nyc"} -> <<"40.7128", "-74.0060">>
         [] l = "london" -> <<"51.5074", "-0.1278">>
         [] l = "paris" -> <<"48.8566", "2.3522">>
         [] l = "tokyo" -> <<"35.6762", "139.6503">>
         [] l = "sydney" -> <<"-33.8688", "151.2093">>
         [] l \in {"los angeles", "la"} -> <<"34.0522", "-118.2437">>
         [] l = "chicago" -> <<"41.8781", "-87.6298">>
         [] l = "melbourne" -> <<"-37.8136", "144.9631">>
         [] l = "dubai" -> <<"25.2048", "55.2708">>
         [] l = "singapore" -> <<"1.3521", "103.8198">>
         [] l = "miami" -> <<"25.7617", "-80.1918">>
         [] l = "san francisco" -> <<"37.7749", "-122.4194">>
         [] l = "las vegas" -> <<"36.1699", "-115.1398">>
         [] l = "toronto" -> <<"43.6532", "-79.3832">>
         [] l = "berlin" -> <<"52.5200", "13.4050">>
         [] l = "rome" -> <<"41.9028", "12.4964">>
         [] l = "madrid" -> <<"40.4168", "-3.7038">>
         [] l = "amsterdam" -> <<"52.3676", "4.9041">>
         [] l = "barcelona" -> <<"41.3851", "2.1734">>
         [] OTHER -> <<"51.5074", "-0.1278">>

SearchRadius == 10

StayPayload(request) ==
    LET coordinates == GeocodeLocation(request.location)
        guests == Repeat(Obj([type |-> Str("adult")]), UnwrapOr(request.adults, 1))
                  \o Repeat(Obj([type |-> Str("child")]), UnwrapOr(request.children, 0))
    IN Obj([data |-> Obj([location |->
                              Obj([radius |-> Num(SearchRadius),
                                   geographic_coordinates |->
                                       Obj([latitude |-> Float(coordinates[1]),
                                            longitude |-> Float(coordinates[2])])]),
                          check_in_date |-> Str(request.check_in_date),
                          check_out_date |-> Str(request.check_out_date),
                          guests |-> Arr(guests),
                          rooms |-> Num(UnwrapOr(request.rooms, 1))])])

(***************************************************************************)
(* The text formatters.  The report is the sequence of its lines; a line   *)
(* is a record naming its format string (k) and the values printed in it.  *)
(***************************************************************************)
Blank == [k |-> "blank"]

\* the stops line pushed without the test for zero
FlightBlockAlwaysStops(i, offer) ==
    <<[k |-> "item", i |-> i, airline |-> offer.airline,
       flight_number |-> offer.flight_number,
       price |-> offer.price, currency |-> offer.currency],
      [k |-> "departure", s |-> offer.departure_time],
      [k |-> "arrival", s |-> offer.arrival_time],
      [k |-> "duration", s |-> offer.duration],
      [k |-> "stops", n |-> offer.stops]>>
    \o (IF offer.aircraft.some THEN <<[k |-> "aircraft", s |-> offer.aircraft.v]>>
        ELSE <<>>)
    \o <<Blank>>
\* the lines pushed for offer number i (i + 1 of the enumerate loop)
FlightBlock(i, offer) ==
    <<[k |-> "item", i |-> i, airline |-> offer.airline,
       flight_number |-> offer.flight_number,
       price |-> offer.price, currency |-> offer.currency],
      [k |-> "departure", s |-> offer.departure_time],
      [k |-> "arrival", s |-> offer.arrival_time],
      [k |-> "duration", s |-> offer.duration]>>
    \o (IF offer.stops > 0 THEN <<[k |-> "stops", n |-> offer.stops]>>
        ELSE <<[k |-> "direct"]>>)
    \o (IF offer.aircraft.some THEN <<[k |-> "aircraft", s |-> offer.aircraft.v]>>
        ELSE <<>>)
    \o <<Blank>>

RECURSIVE FlightBlocks(_, _)
FlightBlocks(offers, i) ==
    IF i > Len(offers) THEN <<>>
    ELSE FlightBlock(i, offers[i]) \o FlightBlocks(offers, i + 1)

\* the header counting the offers that are listed
FormatFlightResultsCountingOffers(response) ==
    IF response.offers = <<>> THEN <<[k |-> "no_flights"]>>
    ELSE <<[k |-> "header", n |-> Len(response.offers)], Blank>>
         \o FlightBlocks(response.offers, 1)
         \o <<[k |-> "search_id", s |-> response.search_id]>>
FormatFlightResults(response) ==
    IF response.offers = <<>> THEN <<[k |-> "no_flights"]>>
    ELSE <<[k |-> "header", n |-> response.total_results], Blank>>
         \o FlightBlocks(response.offers, 1)
         \o <<[k |-> "search_id", s |-> response.search_id]>>

StayBlock(i, offer) ==
    <<[k |-> "item", i |-> i, hotel_name |-> offer.hotel_name,
       price |-> offer.total_amount, currency |-> offer.currency]>>
    \o (IF offer.hotel_rating.some THEN <<[k |-> "rating", n |-> offer.hotel_rating.v]>>
        ELSE <<>>)
    \o <<[k |-> "location", s |-> offer.location],
         [k |-> "dates", s |-> offer.check_in_date, s2 |-> offer.check_out_date]>>
    \o (IF offer.room_type.some THEN <<[k |-> "room", s |-> offer.room_type.v]>>
        ELSE <<>>)
    \o (IF offer.amenities # <<>> THEN <<[k |-> "amenities", list |-> offer.amenities]>>
        ELSE <<>>)
    \o (IF offer.cancellation_policy.some
        THEN <<[k |-> "cancellation", s |-> offer.cancellation_policy.v]>>
        ELSE <<>>)
    \o <<Blank>>

RECURSIVE StayBlocks(_, _)
StayBlocks(offers, i) ==
    IF i > Len(offers) THEN <<>>
    ELSE StayBlock(i, offers[i]) \o StayBlocks(offers, i + 1)

\* the test for an empty list made on the provider's count
FormatStayResultsOnZeroTotal(response) ==
    IF response.total_results = 0 THEN <<[k |-> "no_hotels", s |-> response.location_searched]>>
    ELSE <<[k |-> "header", n |-> response.total_results,
            s |-> response.location_searched], Blank>>
         \o StayBlocks(response.offers, 1)
         \o <<[k |-> "search_id", s |-> response.search_id]>>
FormatStayResults(response) ==
    IF response.offers = <<>> THEN <<[k |-> "no_hotels", s |-> response.location_searched]>>
    ELSE <<[k |-> "header", n |-> response.total_results,
            s |-> response.location_searched], Blank>>
         \o StayBlocks(response.offers, 1)
         \o <<[k |-> "search_id", s |-> response.search_id]>>

(***************************************************************************)
(* handle_request up to its first suspension point.                        *)
(***************************************************************************)
\* the tool name of the other service pasted into this one
KnownToolOfFlights(svc) == "search_flights"
KnownTool(svc) == IF svc = "flights" THEN "search_flights" ELSE "search_stays"
ServerName(svc) == IF svc = "flights" THEN "duffel-flights-mcp" ELSE "duffel-stays-mcp"
FailurePrefix(svc) == IF svc = "flights" THEN "Flight search failed" ELSE "Stay search failed"
RequiredFields(svc) ==
    IF svc = "flights" THEN <<"origin", "destination", "departure_date">>
    ELSE <<"location", "check_in_date", "check_out_date">>
SchemaProperties(svc) ==
    IF svc = "flights"
    THEN [origin |-> "string", destination |-> "string", departure_date |-> "string",
          return_date |-> "string", passengers |-> "integer", cabin_class |-> "string"]
    ELSE [location |-> "string", check_in_date |-> "string", check_out_date |-> "string",
          adults |-> "integer", children |-> "integer", rooms |-> "integer"]

JsonRpcResult(result, id) == [jsonrpc |-> "2.0", result |-> result, id |-> id]
\* error responses that lose the request's id
JsonRpcErrorWithoutId(code, prefix, e, id) ==
    [jsonrpc |-> "2.0",
     error |-> [code |-> code,
                message |-> [prefix |-> prefix, msg |-> e.msg, detail |-> e.detail]],
     id |-> Null]
JsonRpcError(code, prefix, e, id) ==
    [jsonrpc |-> "2.0",
     error |-> [code |-> code,
                message |-> [prefix |-> prefix, msg |-> e.msg, detail |-> e.detail]],
     id |-> id]
NoDetail == [msg |-> "", detail |-> ""]

\* the descriptor of the flights service pasted into both
InitializeResultOfFlights(svc) ==
    [protocolVersion |-> "2024-11-05",
     capabilities |-> [tools |-> <<>>],
     serverInfo |-> [name |-> "duffel-flights-mcp", version |-> "0.1.0"]]
InitializeResult(svc) ==
    [protocolVersion |-> "2024-11-05",
     capabilities |-> [tools |-> <<>>],
     serverInfo |-> [name |-> ServerName(svc), version |-> "0.1.0"]]

ToolsListResult(svc) ==
    [tools |-> <<[name |-> KnownTool(svc),
                  inputSchema |-> [type |-> "object",
                                   properties |-> SchemaProperties(svc),
                                   required |-> RequiredFields(svc)]]>>]

DecodeSearchRequest(svc, arguments) ==
    IF svc = "flights" THEN DecodeFlightSearchRequest(arguments)
    ELSE DecodeStaySearchRequest(arguments)

\* [k |-> "respond", response] or [k |-> "search", search_request]
Dispatch(svc, req) ==
    LET method == UnwrapOr(AsStr(Get(req, "method")), "")
        id == Get(req, "id")
        params == Get(req, "params")
        tool_name == UnwrapOr(AsStr(Get(params, "name")), "")
        arguments == Get(params, "arguments")
        decoded == DecodeSearchRequest(svc, arguments)
    IN
    CASE method = "initialize" ->
            [k |-> "respond", response |-> JsonRpcResult(InitializeResult(svc), id)]
      [] method = "tools/list" ->
            [k |-> "respond", response |-> JsonRpcResult(ToolsListResult(svc), id)]
      [] method = "tools/call" ->
            IF tool_name = KnownTool(svc)
            THEN IF decoded.ok
                 THEN [k |-> "search", search_request |-> decoded.v]
                 ELSE [k |-> "respond",
                       response |-> JsonRpcError(InvalidParams, "Invalid parameters",
                                                 [msg |-> "serde error", detail |-> ""], id)]
            ELSE [k |-> "respond",
                  response |-> JsonRpcError(MethodNotFound, "Method not found", NoDetail, id)]
      [] OTHER ->
            [k |-> "respond",
             response |-> JsonRpcError(MethodNotFound, "Method not found", NoDetail, id)]

\* the end of handle_request once the search has returned
SearchOutcome(svc, result, id) ==
    IF result.k = "ok"
    THEN JsonRpcResult([content |-> <<[type |-> "text",
                                       text |-> IF svc = "flights"
                                                THEN FormatFlightResults(result.v)
                                                ELSE FormatStayResults(result.v)]>>],
                       id)
    ELSE JsonRpcError(ProviderFailure, FailurePrefix(svc), result.e, id)

(***************************************************************************)
(* The outbound calls and the provider's replies.                          *)
(***************************************************************************)
PostCall(svc, payload) ==
    [verb |-> "POST",
     url |-> IF svc = "flights" THEN "https://api.duffel.com/air/offer_requests"
             ELSE "https://api.duffel.com/stays/search",
     query |-> None,
     body |-> payload]
\* the offers of a fixed offer request
GetCallFixedId(offer_request_id) ==
    [verb |-> "GET", url |-> "https://api.duffel.com/air/offers",
     query |-> Some("orq_1"), body |-> Null]
GetCall(offer_request_id) ==
    [verb |-> "GET", url |-> "https://api.duffel.com/air/offers",
     query |-> Some(offer_request_id), body |-> Null]

\* send().await? and the status check with text().await?; Ok carries the reply
Exchange(reply, api_error) ==
    IF reply.k = "send_error" THEN Err("error sending request", "")
    ELSE IF ~reply.ok
         THEN IF reply.readable THEN Err(api_error, reply.text)
              ELSE Err("error decoding response body", "")
         ELSE Ok(reply)

\* response.json().await?
ReadJson(reply) ==
    IF reply.readable /\ reply.json.some THEN Ok(reply.json.v)
    ELSE Err("error decoding response body", "")

\* search_flights from the reply to the POST to the issue of the GET:
\* Ok carries the offer request id
AfterFlightPost(reply) ==
    LET ex == Exchange(reply, "Duffel API error")
    IN IF ex.k = "err" THEN ex
       ELSE LET response_data == ReadJson(reply)
            IN IF response_data.k = "err" THEN response_data
               ELSE LET offer_request_id == AsStr(Get(Get(response_data.v, "data"), "id"))
                    IN IF offer_request_id.some THEN Ok(offer_request_id.v)
                       ELSE Err("No offer request ID in response", "")

\* search_flights from the reply to the GET on
AfterFlightGet(reply, offer_request_id) ==
    LET ex == Exchange(reply, "Duffel offers API error")
    IN IF ex.k = "err" THEN ex
       ELSE LET offers_data == ReadJson(reply)
            IN IF offers_data.k = "err" THEN offers_data
               ELSE NormalizeFlights(offers_data.v, offer_request_id)

\* search_stays from the reply to the POST on
AfterStayPost(reply, request) ==
    LET ex == Exchange(reply, "Duffel Stays API error")
    IN IF ex.k = "err" THEN ex
       ELSE LET response_data == ReadJson(reply)
            IN IF response_data.k = "err" THEN response_data
               ELSE IF LogTruncationPanics(reply.layout) THEN Panic
               ELSE ParseDuffelStaysResponse(response_data.v, request)

(***************************************************************************)
(* The inputs that are enumerated: inbound requests.                       *)
(***************************************************************************)
\* the id member of a request: absent, null, a number, a string
RequestIds == {None, Some(Null), Some(Num(7)), Some(Str("req-a"))}

WithId(fields, idopt) ==
    IF idopt.some THEN Put(Obj(fields), "id", idopt.v) ELSE Obj(fields)

FlightArgs == Obj([origin |-> Str("JFK"), destination |-> Str("LHR"),
                   departure_date |-> Str("2025-06-01")])
ValidFlightArguments ==
    {FlightArgs,
     Put(FlightArgs, "passengers", Num(2)),
     Put(FlightArgs, "return_date", Str("2025-06-09")),
     Put(Put(FlightArgs, "passengers", Num(0)), "cabin_class", Str("business")),
     Put(Put(FlightArgs, "passengers", Null), "extra", Num(1)),
     Put(Put(FlightArgs, "passengers", Num(-1)), "return_date", Null),
     Arr(<<Str("JFK"), Str("LHR"), Str("2025-06-01"), Null, Num(3), Null>>)}
InvalidFlightArguments ==
    {Null,
     Str("JFK"),
     Obj(<<>>),
     Del(FlightArgs, "origin"),
     Del(FlightArgs, "departure_date"),
     Put(FlightArgs, "destination", Num(5)),
     Put(FlightArgs, "origin", Null),
     Put(FlightArgs, "passengers", Str("two")),
     Put(FlightArgs, "passengers", BigNum),
     Put(FlightArgs, "return_date", Num(20250609)),
     Arr(<<Str("JFK"), Str("LHR"), Str("2025-06-01")>>)}

StayArgs == Obj([location |-> Str("Paris"), check_in_date |-> Str("2025-07-01"),
                 check_out_date |-> Str("2025-07-04")])
ValidStayArguments ==
    {StayArgs,
     Put(StayArgs, "location", Str("Atlantis")),
     Put(Put(StayArgs, "adults", Num(2)), "children", Num(1)),
     Put(Put(StayArgs, "rooms", Num(2)), "location", Str("NYC")),
     Put(StayArgs, "adults", Null)}
InvalidStayArguments ==
    {Null,
     Obj(<<>>),
     Del(StayArgs, "location"),
     Del(StayArgs, "check_out_date"),
     Put(StayArgs, "check_in_date", Num(20250701)),
     Put(StayArgs, "adults", Str("two")),
     Put(StayArgs, "rooms", BigNum),
     Arr(<<Str("Paris")>>)}

ToolArguments(svc) ==
    IF svc = "flights" THEN ValidFlightArguments \cup InvalidFlightArguments
    ELSE ValidStayArguments \cup InvalidStayArguments

\* the tool a client of the service calls
ToolOf(svc) == IF svc = "flights" THEN "search_flights" ELSE "search_stays"

\* the members of a request other than its id
RequestBodies(svc) ==
    {<<>>,
     [method |-> Num(1)],
     [method |-> Null],
     [method |-> Str("")],
     [method |-> Str("ping")],
     [method |-> Str("initialize")],
     [method |-> Str("tools/list")],
     [method |-> Str("initialize"), params |-> Obj([name |-> Str(ToolOf(svc))])],
     [method |-> Str("tools/call")],
     [method |-> Str("tools/call"), params |-> Null],
     [method |-> Str("tools/call"), params |-> Obj([arguments |-> FlightArgs])],
     [method |-> Str("tools/call"), params |-> Obj([name |-> Num(3), arguments |-> FlightArgs])],
     [method |-> Str("tools/call"), params |-> Obj([name |-> Str("book_flight")])],
     [method |-> Str("tools/call"),
      params |-> Obj([name |-> Str(IF svc = "flights" THEN "search_stays" ELSE "search_flights"),
                      arguments |-> IF svc = "flights" THEN StayArgs ELSE FlightArgs])],
     [method |-> Str("tools/call"), params |-> Obj([name |-> Str(ToolOf(svc))])]}
    \cup {[method |-> Str("tools/call"),
           params |-> Obj([name |-> Str(ToolOf(svc)), arguments |-> a])] :
          a \in ToolArguments(svc)}

\* every JSON body is accepted by the transport, objects or not
Requests(svc) ==
    {WithId(b, i) : b \in RequestBodies(svc), i \in RequestIds}
    \cup {Null, Arr(<<Str("tools/call")>>), Str("initialize")}

(***************************************************************************)
(* The inputs that are enumerated: provider result items.  Item number i   *)
(* carries its own id; a variant lacks or spoils one member.               *)
(***************************************************************************)
Segment ==
    Obj([departing_at |-> Str("2025-06-01T09:00"),
         arriving_at |-> Str("2025-06-01T21:00"),
         marketing_carrier |-> Obj([name |-> Str("British Airways")]),
         marketing_carrier_flight_number |-> Str("117"),
         aircraft |-> Obj([name |-> Str("Airbus A350")])])
Slice(segments) == Obj([duration |-> Str("PT7H"), segments |-> Arr(segments)])
FlightItemWith(i, segments) ==
    Obj([id |-> Str("off_" \o ToString(i)),
         total_amount |-> Str("450.00"),
         total_currency |-> Str("GBP"),
         slices |-> Arr(<<Slice(segments)>>)])

FlightItemKinds ==
    {"ok", "two_segments", "no_aircraft", "no_id", "id_not_string", "no_total_amount",
     "no_total_currency", "no_slices", "empty_slices", "no_segments", "empty_segments",
     "no_duration", "no_departing_at", "no_arriving_at", "no_carrier_name",
     "no_flight_number", "no_id_empty_slices"}

FlightItem(i, kind) ==
    LET good == FlightItemWith(i, <<Segment>>)
    IN CASE kind = "ok" -> good
         [] kind = "two_segments" -> FlightItemWith(i, <<Segment, Segment>>)
         [] kind = "no_aircraft" -> FlightItemWith(i, <<Del(Segment, "aircraft")>>)
         [] kind = "no_id" -> Del(good, "id")
         [] kind = "id_not_string" -> Put(good, "id", Num(i))
         [] kind = "no_total_amount" -> Del(good, "total_amount")
         [] kind = "no_total_currency" -> Put(good, "total_currency", Null)
         [] kind = "no_slices" -> Del(good, "slices")
         [] kind = "empty_slices" -> Put(good, "slices", Arr(<<>>))
         [] kind = "no_segments" ->
                Put(good, "slices", Arr(<<Del(Slice(<<Segment>>), "segments")>>))
         [] kind = "empty_segments" -> FlightItemWith(i, <<>>)
         [] kind = "no_duration" ->
                Put(good, "slices", Arr(<<Del(Slice(<<Segment>>), "duration")>>))
         [] kind = "no_departing_at" -> FlightItemWith(i, <<Del(Segment, "departing_at")>>)
         [] kind = "no_arriving_at" -> FlightItemWith(i, <<Del(Segment, "arriving_at")>>)
         [] kind = "no_carrier_name" ->
                FlightItemWith(i, <<Put(Segment, "marketing_carrier", Obj(<<>>))>>)
         [] kind = "no_flight_number" ->
                FlightItemWith(i, <<Del(Segment, "marketing_carrier_flight_number")>>)
         [] kind = "no_id_empty_slices" -> Del(Put(good, "slices", Arr(<<>>)), "id")

Amenity(d) == Obj([type |-> Str("amenity"), description |-> Str(d)])
Accommodation ==
    Obj([name |-> Str("Hotel Lutetia"),
         rating |-> Num(4),
         location |-> Obj([address |-> Obj([city_name |-> Str("Paris")])]),
         amenities |-> Arr(<<Amenity("Pool"), Amenity("Spa")>>)])
StayItemWith(i, accommodation) ==
    Obj([id |-> Str("srr_" \o ToString(i)),
         accommodation |-> accommodation,
         cheapest_rate_total_amount |-> Str("320.00"),
         cheapest_rate_currency |-> Str("EUR")])

StayItemKinds ==
    {"ok", "no_id", "id_not_string", "no_accommodation", "no_name", "no_rating",
     "no_city_name", "no_amount", "no_currency", "no_amenities", "amenities_not_array",
     "empty_amenities", "wifi_amenity", "amenity_without_description"}

StayItem(i, kind) ==
    LET good == StayItemWith(i, Accommodation)
    IN CASE kind = "ok" -> good
         [] kind = "no_id" -> Del(good, "id")
         [] kind = "id_not_string" -> Put(good, "id", Num(i))
         [] kind = "no_accommodation" -> Del(good, "accommodation")
         [] kind = "no_name" -> StayItemWith(i, Del(Accommodation, "name"))
         [] kind = "no_rating" -> StayItemWith(i, Del(Accommodation, "rating"))
         [] kind = "no_city_name" -> StayItemWith(i, Put(Accommodation, "location", Obj(<<>>)))
         [] kind = "no_amount" -> Del(good, "cheapest_rate_total_amount")
         [] kind = "no_currency" -> Put(good, "cheapest_rate_currency", Null)
         [] kind = "no_amenities" -> StayItemWith(i, Del(Accommodation, "amenities"))
         [] kind = "amenities_not_array" ->
                StayItemWith(i, Put(Accommodation, "amenities", Str("Pool")))
         [] kind = "empty_amenities" ->
                StayItemWith(i, Put(Accommodation, "amenities", Arr(<<>>)))
         [] kind = "wifi_amenity" ->
                StayItemWith(i, Put(Accommodation, "amenities", Arr(<<Amenity("WiFi")>>)))
         [] kind = "amenity_without_description" ->
                StayItemWith(i, Put(Accommodation, "amenities",
                                    Arr(<<Obj([type |-> Str("amenity")]), Amenity("Bar")>>)))

\* where the one item of another kind is put: first, last, and the two
\* positions around the result limit
OddPositions(n) == {1, ResultLimit, ResultLimit + 1, n} \cap (1..n)

\* result arrays: all items good, one item of another kind, or all of one kind
ItemArrays(Item(_, _), kinds) ==
    {[i \in 1..n |-> Item(i, "ok")] : n \in 0..MaxItems}
    \cup {[i \in 1..t[1] |-> IF i = t[2] THEN Item(i, t[3]) ELSE Item(i, "ok")] :
          t \in {u \in (1..MaxItems) \X (1..MaxItems) \X kinds : u[2] \in OddPositions(u[1])}}
    \cup {[i \in 1..t[1] |-> Item(i, t[2])] : t \in {1, MaxItems} \X kinds}

FlightArrays == ItemArrays(FlightItem, FlightItemKinds)
StayArrays == ItemArrays(StayItem, StayItemKinds)

(***************************************************************************)
(* The inputs that are enumerated: provider replies.                       *)
(***************************************************************************)
ShortLayout == <<[n |-> 40, w |-> 1]>>
Layouts ==
    {ShortLayout,
     <<[n |-> LogLimit, w |-> 1]>>,
     <<[n |-> LogLimit + 500, w |-> 1]>>,
     <<[n |-> LogLimit - 1, w |-> 1], [n |-> 1, w |-> 2], [n |-> 30, w |-> 1]>>,
     <<[n |-> LogLimit - 2, w |-> 1], [n |-> 1, w |-> 2], [n |-> 30, w |-> 1]>>,
     <<[n |-> LogLimit - 2, w |-> 1], [n |-> 1, w |-> 3], [n |-> 30, w |-> 1]>>,
     <<[n |-> LogLimit - 3, w |-> 1], [n |-> 1, w |-> 4]>>,
     <<[n |-> 400, w |-> 3]>>}

SendError == [k |-> "send_error"]
HttpReply(ok, readable, text, json, layout) ==
    [k |-> "http", ok |-> ok, readable |-> readable, text |-> text,
     json |-> json, layout |-> layout]
Success(json) == HttpReply(TRUE, TRUE, "", Some(json), ShortLayout)

\* transport failure, non-success status, unreadable or malformed body
FailedReplies ==
    {SendError,
     HttpReply(FALSE, TRUE, "{\"errors\":[{\"title\":\"Unauthorized\"}]}", None, ShortLayout),
     HttpReply(FALSE, TRUE, "Bad Gateway", None, ShortLayout),
     HttpReply(FALSE, FALSE, "Service Unavailable", None, ShortLayout),
     HttpReply(TRUE, FALSE, "", None, ShortLayout),
     HttpReply(TRUE, TRUE, "", None, ShortLayout)}

FlightPostReplies ==
    FailedReplies
    \cup {Success(Obj([data |-> Obj([id |-> Str("orq_1")])])),
          Success(Obj([data |-> Obj([id |-> Str("orq_2"), live_mode |-> Str("false")])])),
          Success(Obj([data |-> Obj([id |-> Num(9)])])),
          Success(Obj([data |-> Obj(<<>>)])),
          Success(Obj([errors |-> Arr(<<>>)])),
          Success(Null)}

FlightGetReplies ==
    FailedReplies
    \cup {Success(Obj([data |-> Arr(a)])) : a \in FlightArrays}
    \cup {Success(Obj([data |-> Obj([offers |-> Arr(<<FlightItem(1, "ok")>>)])])),
          Success(Obj(<<>>)),
          Success(Arr(<<FlightItem(1, "ok")>>))}

StayBody(results, meta) == Obj([data |-> Obj([results |-> Arr(results)]), meta |-> meta])
StayMeta == Obj([request_id |-> Str("req_stays_1")])

StayPostReplies ==
    FailedReplies
    \cup {Success(StayBody(a, StayMeta)) : a \in StayArrays}
    \cup {HttpReply(TRUE, TRUE, "", Some(StayBody(a, m)), l) :
          <<a, m, l>> \in {a \in StayArrays : Len(a) <= 1} \X {StayMeta, Null} \X Layouts}
    \cup {HttpReply(TRUE, TRUE, "", Some(j), l) :
          <<j, l>> \in {Obj([data |-> Arr(<<StayItem(1, "ok")>>)]),
                        Obj([data |-> Obj([search_results |-> Arr(<<StayItem(1, "ok")>>)])]),
                        Obj(<<>>),
                        Null} \X Layouts}

(***************************************************************************)
(* The state.  The service is one of the two programs; every request slot  *)
(* is one invocation of handle_mcp_request with its own locals.            *)
(***************************************************************************)
VARIABLES
    service,           \* which of the two programs runs
    pc,                \* per slot: where the handler stands
    request,           \* per slot: the inbound JSON value
    search_request,    \* per slot: the decoded SearchRequest
    offer_request_id,  \* per slot: the id extracted from the POST's reply
    calls,             \* per slot: the outbound calls issued so far
    replies,           \* per slot: the provider replies received so far
    search,            \* per slot: what search_flights / search_stays returned
    response,          \* per slot: the value returned by handle_request
    handled            \* invocations that have ended, saturating

vars == <<service, pc, request, search_request, offer_request_id, calls, replies,
          search, response, handled>>

Reqs == 1..MaxReq
Services == {"flights", "stays"}

Init ==
    /\ service \in Services
    /\ pc = [r \in Reqs |-> "idle"]
    /\ request = [r \in Reqs |-> Null]
    /\ search_request = [r \in Reqs |-> None]
    /\ offer_request_id = [r \in Reqs |-> None]
    /\ calls = [r \in Reqs |-> <<>>]
    /\ replies = [r \in Reqs |-> <<>>]
    /\ search = [r \in Reqs |-> None]
    /\ response = [r \in Reqs |-> None]
    /\ handled = 0

\* the id taken from the first slot's request instead of the handler's own
FinishSharedId(r, result) ==
    /\ search' = [search EXCEPT ![r] = Some(result)]
    /\ IF result.k = "panic"
       THEN /\ pc' = [pc EXCEPT ![r] = "panicked"]
            /\ response' = response
       ELSE /\ pc' = [pc EXCEPT ![r] = "done"]
            /\ response' = [response EXCEPT
                              ![r] = Some(SearchOutcome(service, result, Get(request[1], "id")))]
\* handle_request returns: with a response, or by unwinding a panic
Finish(r, result) ==
    /\ search' = [search EXCEPT ![r] = Some(result)]
    /\ IF result.k = "panic"
       THEN /\ pc' = [pc EXCEPT ![r] = "panicked"]
            /\ response' = response
       ELSE /\ pc' = [pc EXCEPT ![r] = "done"]
            /\ response' = [response EXCEPT
                              ![r] = Some(SearchOutcome(service, result, Get(request[r], "id")))]

\* a request arrives: handle_request runs to its return or to the POST
Receive(r, reqs) ==
    /\ pc[r] = "idle"
    /\ \E req \in reqs :
        LET d == Dispatch(service, req)
        IN /\ request' = [request EXCEPT ![r] = req]
           /\ IF d.k = "respond"
              THEN /\ pc' = [pc EXCEPT ![r] = "done"]
                   /\ response' = [response EXCEPT ![r] = Some(d.response)]
                   /\ UNCHANGED <<search_request, calls>>
              ELSE /\ pc' = [pc EXCEPT ![r] = "await_post"]
                   /\ search_request' = [search_request EXCEPT ![r] = Some(d.search_request)]
                   /\ calls' = [calls EXCEPT
                                  ![r] = <<PostCall(service,
                                                    IF service = "flights"
                                                    THEN FlightPayload(d.search_request)
                                                    ELSE StayPayload(d.search_request))>>]
                   /\ UNCHANGED response
    /\ UNCHANGED <<service, offer_request_id, replies, search, handled>>

\* flights: the POST to /air/offer_requests completes
FlightPostReply(r, family) ==
    /\ service = "flights"
    /\ pc[r] = "await_post"
    /\ \E reply \in family :
        LET res == AfterFlightPost(reply)
        IN /\ replies' = [replies EXCEPT ![r] = Append(@, reply)]
           /\ IF res.k = "ok"
              THEN /\ offer_request_id' = [offer_request_id EXCEPT ![r] = Some(res.v)]
                   /\ calls' = [calls EXCEPT ![r] = Append(@, GetCall(res.v))]
                   /\ pc' = [pc EXCEPT ![r] = "await_get"]
                   /\ UNCHANGED <<search, response>>
              ELSE /\ Finish(r, res)
                   /\ UNCHANGED <<offer_request_id, calls>>
    /\ UNCHANGED <<service, request, search_request, handled>>

\* flights: the GET of /air/offers completes
FlightGetReply(r, family) ==
    /\ service = "flights"
    /\ pc[r] = "await_get"
    /\ \E reply \in family :
        /\ replies' = [replies EXCEPT ![r] = Append(@, reply)]
        /\ Finish(r, AfterFlightGet(reply, offer_request_id[r].v))
    /\ UNCHANGED <<service, request, search_request, offer_request_id, calls, handled>>

\* stays: the POST to /stays/search completes
StayPostReply(r, family) ==
    /\ service = "stays"
    /\ pc[r] = "await_post"
    /\ \E reply \in family :
        /\ replies' = [replies EXCEPT ![r] = Append(@, reply)]
        /\ Finish(r, AfterStayPost(reply, search_request[r].v))
    /\ UNCHANGED <<service, request, search_request, offer_request_id, calls, handled>>

\* the locals of an invocation are dropped when it ends
Drop(r) ==
    /\ pc' = [pc EXCEPT ![r] = "idle"]
    /\ request' = [request EXCEPT ![r] = Null]
    /\ search_request' = [search_request EXCEPT ![r] = None]
    /\ offer_request_id' = [offer_request_id EXCEPT ![r] = None]
    /\ calls' = [calls EXCEPT ![r] = <<>>]
    /\ replies' = [replies EXCEPT ![r] = <<>>]
    /\ search' = [search EXCEPT ![r] = None]
    /\ response' = [response EXCEPT ![r] = None]
    /\ handled' = Min(handled + 1, MaxHandled)
    /\ UNCHANGED service

\* the invocation ends: handle_mcp_request hands the response to the
\* transport, or the panic unwinds the request's task and the server runs on
End(r) ==
    /\ pc[r] \in {"done", "panicked"}
    /\ Drop(r)

\* one client with one request outstanding at a time
Sequential == {1}

Next ==
    \E r \in Sequential :
        \/ Receive(r, Requests(service))
        \/ FlightPostReply(r, FlightPostReplies)
        \/ FlightGetReply(r, FlightGetReplies)
        \/ StayPostReply(r, StayPostReplies)
        \/ End(r)

Spec == Init /\ [][Next]_vars

(***************************************************************************)
(* What the properties speak about.                                        *)
(***************************************************************************)
Ended(r) == pc[r] \in {"done", "panicked"}
SearchOk(r) == search[r].some /\ search[r].v.k = "ok"
SearchResponseOf(r) == search[r].v.v

\* a reply with a success status whose body was read as JSON
IsJsonReply(reply) == reply.k = "http" /\ reply.ok /\ reply.readable /\ reply.json.some

\* the provider's result array of slot r, once the reply that carries it is in
ResultsReplyAt == IF service = "flights" THEN 2 ELSE 1
ResultsValue(r) ==
    LET json == replies[r][ResultsReplyAt].json.v
    IN IF service = "flights" THEN Get(json, "data")
       ELSE Get(Get(json, "data"), "results")
HasResults(r) ==
    /\ Len(replies[r]) = ResultsReplyAt
    /\ IsJsonReply(replies[r][ResultsReplyAt])
    /\ ResultsValue(r).t = "arr"
ProviderResults(r) == ResultsValue(r).a

IsString(val) == val.t = "str"
FirstOf(val) == IF val.t = "arr" /\ Len(val.a) > 0 THEN val.a[1] ELSE Null

\* all required fields of the domain can be read from the provider item
FlightResolvable(item) ==
    LET slice == FirstOf(Get(item, "slices"))
        segment == FirstOf(Get(slice, "segments"))
    IN /\ IsString(Get(item, "id"))
       /\ IsString(Get(item, "total_amount"))
       /\ IsString(Get(item, "total_currency"))
       /\ IsString(Get(slice, "duration"))
       /\ IsString(Get(segment, "departing_at"))
       /\ IsString(Get(segment, "arriving_at"))
       /\ IsString(Get(Get(segment, "marketing_carrier"), "name"))
       /\ IsString(Get(segment, "marketing_carrier_flight_number"))
StayResolvable(item) ==
    /\ IsString(Get(item, "id"))
    /\ IsString(Get(Get(item, "accommodation"), "name"))
Resolvable(item) ==
    IF service = "flights" THEN FlightResolvable(item) ELSE StayResolvable(item)

\* the positions among the first ten of the array whose item is resolvable
KeptPositions(arr) == {i \in 1..Len(arr) : i <= 10 /\ Resolvable(arr[i])}
Smaller(a, b) == IF a < b THEN a ELSE b

(***************************************************************************)
(* C1, as stated: whenever a search returned a SearchResponse, its offer   *)
(* list has exactly min(n, 10) entries, n being the length of the          *)
(* provider's result array.                                                *)
(***************************************************************************)
C1_LengthIsMin ==
    \A r \in Reqs :
        (SearchOk(r) /\ HasResults(r)) =>
            Len(SearchResponseOf(r).offers) = Smaller(Len(ProviderResults(r)), 10)

(***************************************************************************)
(* C1, amended: the offer list has one entry per item among the first      *)
(* min(n, 10) of the provider's array whose required fields are all        *)
(* resolvable; its length is therefore at most min(n, 10), and equal to it *)
(* when none of those items is dropped.                                    *)
(***************************************************************************)
C1_LengthIsKept ==
    \A r \in Reqs :
        (SearchOk(r) /\ HasResults(r)) =>
            /\ Len(SearchResponseOf(r).offers) = Cardinality(KeptPositions(ProviderResults(r)))
            /\ Len(SearchResponseOf(r).offers) <= Smaller(Len(ProviderResults(r)), 10)

\* a response cut to the limit that also lost one of the first ten items
C1_Witness ==
    \E r \in Reqs :
        /\ SearchOk(r) /\ HasResults(r)
        /\ Len(ProviderResults(r)) > 10
        /\ Len(SearchResponseOf(r).offers) = 9

(***************************************************************************)
(* C5: total_results of a SearchResponse equals the full length of the     *)
(* provider's result array, truncated or not, items dropped or not.        *)
(***************************************************************************)
C5_TotalIsFullLength ==
    \A r \in Reqs :
        (SearchOk(r) /\ HasResults(r)) =>
            SearchResponseOf(r).total_results = Len(ProviderResults(r))

\* an array longer than the limit, every item of which was dropped
C5_Witness ==
    \E r \in Reqs :
        /\ SearchOk(r) /\ HasResults(r)
        /\ Len(ProviderResults(r)) > 10
        /\ SearchResponseOf(r).offers = <<>>
        /\ SearchResponseOf(r).total_results > 10

(***************************************************************************)
(* C2, as stated: whatever the inbound value and whatever the provider     *)
(* replies, handle_request never panics, and what it returns is a          *)
(* well-formed JSON-RPC response: a result, or an error {code, message}.   *)
(***************************************************************************)
WellFormed(resp) ==
    /\ resp.jsonrpc = "2.0"
    /\ "id" \in DOMAIN resp
    /\ \/ DOMAIN resp = {"jsonrpc", "result", "id"}
       \/ /\ DOMAIN resp = {"jsonrpc", "error", "id"}
          /\ DOMAIN resp.error = {"code", "message"}

C2_NoPanicWellFormed ==
    \A r \in Reqs :
        /\ pc[r] # "panicked"
        /\ pc[r] = "done" => (response[r].some /\ WellFormed(response[r].v))

(***************************************************************************)
(* C3, as stated, for the items the normalizer looks at (the first ten):   *)
(* once the provider's result array has reached the normalizer, the        *)
(* handler has a SearchResponse whose offers are exactly the items with    *)
(* all required fields resolvable, in the provider's order; the other      *)
(* items are left out and nothing stands in for them.                      *)
(***************************************************************************)
\* the result array was handed to the normalizer loop
Normalized(r) ==
    /\ HasResults(r)
    /\ service = "stays" => ~LogTruncationPanics(replies[r][ResultsReplyAt].layout)
FirstTen(arr) == [i \in 1..Smaller(Len(arr), 10) |-> arr[i]]
IdsOf(objs) == [i \in 1..Len(objs) |-> Get(objs[i], "id").v]
OfferIds(offers) == [i \in 1..Len(offers) |-> offers[i].id]

C3_OfferIffResolvable ==
    \A r \in Reqs :
        (Ended(r) /\ Normalized(r)) =>
            /\ SearchOk(r)
            /\ OfferIds(SearchResponseOf(r).offers)
                   = IdsOf(SelectSeq(FirstTen(ProviderResults(r)), Resolvable))

(***************************************************************************)
(* C4, as stated: a StayOffer's amenities are ["WiFi"] exactly when the    *)
(* item's accommodation.amenities is missing, not an array, or an empty    *)
(* array; otherwise they are the provider's amenity descriptions.          *)
(***************************************************************************)
HasDescription(a) == IsString(Get(a, "description"))
DescriptionsOf(am) ==
    LET with == SelectSeq(am.a, HasDescription)
    IN [j \in 1..Len(with) |-> Get(with[j], "description").v]
ProviderAmenities(item) == Get(Get(item, "accommodation"), "amenities")

\* rule(item, offer) holds of every stay offer and the item it was made from
ForEveryStayOffer(rule(_, _)) ==
    \A r \in Reqs :
        (service = "stays" /\ SearchOk(r) /\ HasResults(r)) =>
            \A i \in KeptPositions(ProviderResults(r)) :
                \E j \in 1..Len(SearchResponseOf(r).offers) :
                    /\ SearchResponseOf(r).offers[j].id = Get(ProviderResults(r)[i], "id").v
                    /\ rule(ProviderResults(r)[i], SearchResponseOf(r).offers[j])

WiFiExactlyWhenMissingOrEmpty(item, offer) ==
    LET am == ProviderAmenities(item)
        missingOrEmpty == am.t # "arr" \/ am.a = <<>>
    IN /\ (offer.amenities = <<"WiFi">>) <=> missingOrEmpty
       /\ ~missingOrEmpty => offer.amenities = DescriptionsOf(am)

C4_WiFiWhenMissingOrEmpty == ForEveryStayOffer(WiFiExactlyWhenMissingOrEmpty)

(***************************************************************************)
(* C4, amended: the amenities are the placeholder ["WiFi"] when            *)
(* accommodation.amenities is missing or not an array; when it is an       *)
(* array, the empty one included, they are the string descriptions of its  *)
(* entries in order, so an empty array gives an empty list.                *)
(***************************************************************************)
WiFiWhenNotAnArray(item, offer) ==
    LET am == ProviderAmenities(item)
    IN offer.amenities = IF am.t = "arr" THEN DescriptionsOf(am) ELSE <<"WiFi">>

C4_WiFiWhenNotArray == ForEveryStayOffer(WiFiWhenNotAnArray)

\* offers made from an item with an empty amenities array and from one
\* without amenities
C4_Witness ==
    \E r \in Reqs :
        /\ service = "stays" /\ SearchOk(r) /\ HasResults(r)
        /\ \E i \in KeptPositions(ProviderResults(r)) :
              /\ ProviderAmenities(ProviderResults(r)[i]) = Arr(<<>>)
              /\ \E j \in 1..Len(SearchResponseOf(r).offers) :
                    /\ SearchResponseOf(r).offers[j].id = Get(ProviderResults(r)[i], "id").v
                    /\ SearchResponseOf(r).offers[j].amenities = <<>>

(***************************************************************************)
(* C6: a tools/call of the known tool whose arguments do not decode        *)
(* (absent, not an object, a required field missing or not a string, an    *)
(* optional field of the wrong type) is answered with the invalid-params   *)
(* error -32602 and issues no outbound call.                               *)
(***************************************************************************)
RequiredOf(svc) ==
    IF svc = "flights" THEN {"origin", "destination", "departure_date"}
    ELSE {"location", "check_in_date", "check_out_date"}
OptionalStringsOf(svc) == IF svc = "flights" THEN {"return_date", "cabin_class"} ELSE {}
OptionalIntsOf(svc) ==
    IF svc = "flights" THEN {"passengers"} ELSE {"adults", "children", "rooms"}

ArgumentsOf(req) == Get(Get(req, "params"), "arguments")
CallsKnownTool(req) ==
    /\ Get(req, "method") = Str("tools/call")
    /\ Get(Get(req, "params"), "name") = Str(ToolOf(service))
Undecodable(args) ==
    \/ args.t \notin {"obj", "arr"}
    \/ /\ args.t = "obj"
       /\ \/ \E f \in RequiredOf(service) : ~IsString(Get(args, f))
          \/ \E f \in OptionalStringsOf(service) : Get(args, f).t \notin {"null", "str"}
          \/ \E f \in OptionalIntsOf(service) : Get(args, f).t \notin {"null", "num"}
ErrorCode(r) ==
    IF response[r].some /\ "error" \in DOMAIN response[r].v
    THEN response[r].v.error.code ELSE 0

C6_InvalidParamsNoCall ==
    \A r \in Reqs :
        (pc[r] # "idle" /\ CallsKnownTool(request[r]) /\ Undecodable(ArgumentsOf(request[r]))) =>
            /\ pc[r] = "done"
            /\ ErrorCode(r) = -32602
            /\ calls[r] = <<>>
            /\ replies[r] = <<>>

\* answered: arguments that lack a required field, after an earlier request
C6_Witness ==
    \E r \in Reqs :
        /\ pc[r] = "done" /\ CallsKnownTool(request[r])
        /\ ArgumentsOf(request[r]).t = "obj"
        /\ \E f \in RequiredOf(service) : Get(ArgumentsOf(request[r]), f) = Null
        /\ ErrorCode(r) = -32602
        /\ calls[r] = <<>>
        /\ handled = 1

(***************************************************************************)
(* C7, as stated: in the flight search the GET is issued only after the    *)
(* POST returned success and an id was extracted, and it carries that id;  *)
(* a non-success status at either step ends the search with the provider's *)
(* error body as the failure detail; there is at most one POST and one GET.*)
(***************************************************************************)
NonSuccess(reply) == reply.k = "http" /\ ~reply.ok
ExtractedId(reply) == Get(Get(reply.json.v, "data"), "id")

OnePostThenOneGet(r) ==
    /\ Len(calls[r]) <= 2
    /\ Len(replies[r]) <= Len(calls[r])
    /\ Len(calls[r]) >= 1 => calls[r][1].verb = "POST"
    /\ Len(calls[r]) = 2 =>
          /\ calls[r][2].verb = "GET"
          /\ IsJsonReply(replies[r][1])
          /\ IsString(ExtractedId(replies[r][1]))
          /\ calls[r][2].query = Some(ExtractedId(replies[r][1]).v)

\* reply number i ended the search with an error of the provider-failure code
Aborts(r, i) ==
    /\ i = Len(replies[r])
    /\ Len(calls[r]) = i
    /\ pc[r] = "done"
    /\ search[r].some /\ search[r].v.k = "err"
    /\ ErrorCode(r) = -32000
CarriesBody(r, i) ==
    /\ search[r].v.e.msg = (IF i = 1 THEN "Duffel API error" ELSE "Duffel offers API error")
    /\ search[r].v.e.detail = replies[r][i].text
    /\ response[r].v.error.message.detail = replies[r][i].text

C7_TwoStepsBodyAsDetail ==
    \A r \in Reqs :
        service = "flights" =>
            /\ OnePostThenOneGet(r)
            /\ \A i \in 1..Len(replies[r]) :
                  NonSuccess(replies[r][i]) => (Aborts(r, i) /\ CarriesBody(r, i))

(***************************************************************************)
(* C7, amended: as stated, except that the provider's error body is the    *)
(* failure detail when that body can be read; when reading it fails the    *)
(* search ends all the same, with the transport's error as the detail.     *)
(***************************************************************************)
C7_TwoStepsBodyWhenReadable ==
    \A r \in Reqs :
        service = "flights" =>
            /\ OnePostThenOneGet(r)
            /\ \A i \in 1..Len(replies[r]) :
                  NonSuccess(replies[r][i]) =>
                      /\ Aborts(r, i)
                      /\ replies[r][i].readable => CarriesBody(r, i)

\* the GET for the second offer request id was refused with a body
C7_Witness ==
    \E r \in Reqs :
        /\ service = "flights"
        /\ Len(calls[r]) = 2 /\ calls[r][2].query = Some("orq_2")
        /\ Len(replies[r]) = 2 /\ NonSuccess(replies[r][2]) /\ replies[r][2].readable
        /\ search[r].v.e.detail = "Bad Gateway"

(***************************************************************************)
(* C8, as stated: with valid arguments, any failure in the outbound call   *)
(* chain (transport error, non-success status, malformed JSON, missing     *)
(* offer-request id, missing result array) ends the request with the       *)
(* provider-failure error -32000.                                          *)
(***************************************************************************)
MissingExpectedField(reply, i) ==
    /\ IsJsonReply(reply)
    /\ IF service = "flights"
       THEN IF i = 1 THEN ~IsString(ExtractedId(reply))
            ELSE Get(reply.json.v, "data").t # "arr"
       ELSE Get(Get(reply.json.v, "data"), "results").t # "arr"
ChainFailed(r) ==
    \E i \in 1..Len(replies[r]) :
        \/ ~IsJsonReply(replies[r][i])
        \/ MissingExpectedField(replies[r][i], i)

C8_FailureGivesProviderError ==
    \A r \in Reqs :
        (Ended(r) /\ ChainFailed(r)) =>
            /\ pc[r] = "done"
            /\ ErrorCode(r) = -32000

(***************************************************************************)
(* C9: every response handle_request returns carries the id of the request *)
(* it answers, unchanged, and null when the request has no id.             *)
(***************************************************************************)
IdOf(req) == IF req.t = "obj" /\ "id" \in DOMAIN req.f THEN req.f["id"] ELSE Null

C9_IdEchoed ==
    \A r \in Reqs :
        response[r].some =>
            /\ pc[r] = "done"
            /\ response[r].v.id = IdOf(request[r])

\* an error response that carries a string id
C9_Witness ==
    \E r \in Reqs :
        /\ response[r].some
        /\ "error" \in DOMAIN response[r].v
        /\ IdOf(request[r]) = Str("req-a")
        /\ response[r].v.id = Str("req-a")

(***************************************************************************)
(* C10: a request whose method is absent, not a string, or not one of      *)
(* initialize, tools/list and tools/call, and a tools/call whose           *)
(* params.name is absent or not the service's tool, are answered with the  *)
(* method-not-found error -32601 and issue no outbound call.               *)
(***************************************************************************)
UnknownMethod(req) ==
    Get(req, "method") \notin {Str("initialize"), Str("tools/list"), Str("tools/call")}
UnknownTool(req) ==
    /\ Get(req, "method") = Str("tools/call")
    /\ Get(Get(req, "params"), "name") # Str(ToolOf(service))

C10_MethodNotFoundNoCall ==
    \A r \in Reqs :
        (pc[r] # "idle" /\ (UnknownMethod(request[r]) \/ UnknownTool(request[r]))) =>
            /\ pc[r] = "done"
            /\ ErrorCode(r) = -32601
            /\ calls[r] = <<>>
            /\ replies[r] = <<>>

\* the stays service asked for the tool of the flights service
C10_Witness ==
    \E r \in Reqs :
        /\ service = "stays" /\ pc[r] = "done"
        /\ Get(Get(request[r], "params"), "name") = Str("search_flights")
        /\ UnknownTool(request[r])
        /\ ErrorCode(r) = -32601

(***************************************************************************)
(* C11: the offers of a SearchResponse come from the first 10 items of the *)
(* provider's array only, in the provider's order; an item at index 10 or  *)
(* later (counted from 0) never appears, also when some of the first 10    *)
(* were dropped.                                                           *)
(***************************************************************************)
\* the item at position i carries the id of the offer
IsSourceOf(arr, i, offer) == Get(arr[i], "id") = Str(offer.id)

C11_FirstTenInOrder ==
    \A r \in Reqs :
        (SearchOk(r) /\ HasResults(r)) =>
            LET arr == ProviderResults(r)
                offers == SearchResponseOf(r).offers
            IN /\ \A j \in 1..Len(offers) :
                      /\ \E i \in 1..Len(arr) : i <= 10 /\ IsSourceOf(arr, i, offers[j])
                      /\ \A i \in 1..Len(arr) : i > 10 => ~IsSourceOf(arr, i, offers[j])
               /\ \A j, k \in 1..Len(offers) :
                      j < k => \E i1, i2 \in 1..Len(arr) :
                                  /\ i1 < i2
                                  /\ IsSourceOf(arr, i1, offers[j])
                                  /\ IsSourceOf(arr, i2, offers[k])

\* one of the first ten was dropped and the resolvable eleventh item did not
\* take its place
C11_Witness ==
    \E r \in Reqs :
        /\ SearchOk(r) /\ HasResults(r)
        /\ Len(ProviderResults(r)) > 10
        /\ Resolvable(ProviderResults(r)[11])
        /\ \E i \in 1..10 : ~Resolvable(ProviderResults(r)[i])
        /\ Len(SearchResponseOf(r).offers) = 9
        /\ \A j \in 1..9 : ~IsSourceOf(ProviderResults(r), 11, SearchResponseOf(r).offers[j])

(***************************************************************************)
(* C12, as stated: for a flight search request with passengers = N (1 when *)
(* absent) the payload of the POST has exactly N passenger entries, all of *)
(* type adult; one slice, origin to destination on departure_date, when    *)
(* return_date is absent, and a second one, destination to origin on       *)
(* return_date, when it is present; cabin_class is the requested value, or *)
(* economy when absent.                                                    *)
(***************************************************************************)
PayloadData(r) == Get(calls[r][1].body, "data")
RequestedPassengers(req) == IF req.passengers.some THEN req.passengers.v ELSE 1
SliceOf(from, to, date) ==
    Obj([origin |-> Str(from), destination |-> Str(to), departure_date |-> Str(date)])

SlicesAndCabin(r) ==
    LET req == search_request[r].v
        slices == Get(PayloadData(r), "slices")
    IN /\ slices.t = "arr"
       /\ Len(slices.a) = (IF req.return_date.some THEN 2 ELSE 1)
       /\ slices.a[1] = SliceOf(req.origin, req.destination, req.departure_date)
       /\ req.return_date.some =>
             slices.a[2] = SliceOf(req.destination, req.origin, req.return_date.v)
       /\ Get(PayloadData(r), "cabin_class")
             = Str(IF req.cabin_class.some THEN req.cabin_class.v ELSE "economy")
AdultEntries(r, count) ==
    LET passengers == Get(PayloadData(r), "passengers")
    IN /\ passengers.t = "arr"
       /\ Len(passengers.a) = count
       /\ \A i \in 1..Len(passengers.a) : passengers.a[i] = Obj([type |-> Str("adult")])

C12_PayloadHasNPassengers ==
    \A r \in Reqs :
        (service = "flights" /\ calls[r] # <<>>) =>
            /\ AdultEntries(r, RequestedPassengers(search_request[r].v))
            /\ SlicesAndCabin(r)

(***************************************************************************)
(* C12, amended: as stated for N >= 0; for a negative N the payload has no *)
(* passenger entry at all.                                                 *)
(***************************************************************************)
C12_PayloadHasNOrNoPassengers ==
    \A r \in Reqs :
        (service = "flights" /\ calls[r] # <<>>) =>
            LET N == RequestedPassengers(search_request[r].v)
            IN /\ AdultEntries(r, IF N >= 0 THEN N ELSE 0)
               /\ SlicesAndCabin(r)

\* the one-way request for two passengers: two adult entries and one slice
C12_Witness ==
    \E r \in Reqs :
        /\ service = "flights" /\ calls[r] # <<>>
        /\ search_request[r].v.passengers = Some(2)
        /\ ~search_request[r].v.return_date.some
        /\ Get(PayloadData(r), "passengers")
              = Arr(<<Obj([type |-> Str("adult")]), Obj([type |-> Str("adult")])>>)
        /\ Get(PayloadData(r), "slices") = Arr(<<SliceOf("JFK", "LHR", "2025-06-01")>>)
        /\ Get(PayloadData(r), "cabin_class") = Str("economy")

(***************************************************************************)
(* C13: the text formatted for a non-empty SearchResponse has exactly one  *)
(* numbered block per offer, numbered 1..len(offers) in list order, and    *)
(* its last line carries the search id.  The flight report never prints a  *)
(* stops line for zero stops: an offer with zero stops prints the direct   *)
(* flight line, an offer with k > 0 stops prints the stops line with k.    *)
(***************************************************************************)
Reported(r) == SearchOk(r) /\ response[r].some
TextOf(r) == response[r].v.result.content[1].text
IsItemLine(line) == line.k = "item"
IsStopsOrDirectLine(line) == line.k \in {"stops", "direct"}
TitleOf(offer) == IF service = "flights" THEN offer.airline ELSE offer.hotel_name
TitleOn(line) == IF service = "flights" THEN line.airline ELSE line.hotel_name

C13_OneBlockPerOfferNoZeroStops ==
    \A r \in Reqs :
        (Reported(r) /\ SearchResponseOf(r).offers # <<>>) =>
            LET text == TextOf(r)
                offers == SearchResponseOf(r).offers
                items == SelectSeq(text, IsItemLine)
                marks == SelectSeq(text, IsStopsOrDirectLine)
            IN /\ Len(items) = Len(offers)
               /\ \A j \in 1..Len(items) :
                      items[j].i = j /\ TitleOn(items[j]) = TitleOf(offers[j])
               /\ Len(SelectSeq(text, LAMBDA line : line = Blank)) = Len(offers) + 1
               /\ text[Len(text)] = [k |-> "search_id", s |-> SearchResponseOf(r).search_id]
               /\ service = "flights" =>
                      /\ \A p \in 1..Len(text) : text[p].k = "stops" => text[p].n > 0
                      /\ Len(marks) = Len(offers)
                      /\ \A j \in 1..Len(marks) :
                             IF offers[j].stops = 0 THEN marks[j].k = "direct"
                             ELSE marks[j] = [k |-> "stops", n |-> offers[j].stops]

\* a flight report of several blocks, the first with one stop, the second direct
C13_Witness ==
    \E r \in Reqs :
        /\ service = "flights" /\ Reported(r)
        /\ Len(SearchResponseOf(r).offers) >= 2
        /\ SearchResponseOf(r).offers[1].stops = 1
        /\ SearchResponseOf(r).offers[2].stops = 0
        /\ \E p \in 1..Len(TextOf(r)) : TextOf(r)[p] = [k |-> "stops", n |-> 1]
        /\ \E p \in 1..Len(TextOf(r)) : TextOf(r)[p].k = "direct"

(***************************************************************************)
(* C14: for a SearchResponse whose offer list is empty the formatter       *)
(* returns exactly the one-line "no results" sentence, which for stays     *)
(* names the searched location: no header, no block, no search id line,    *)
(* whatever total_results and search_id are.                               *)
(***************************************************************************)
C14_EmptyListGivesOneSentence ==
    \A r \in Reqs :
        (Reported(r) /\ SearchResponseOf(r).offers = <<>>) =>
            /\ Len(TextOf(r)) = 1
            /\ IF service = "flights" THEN TextOf(r)[1] = [k |-> "no_flights"]
               ELSE /\ TextOf(r)[1].k = "no_hotels"
                    /\ TextOf(r)[1].s = search_request[r].v.location

\* a stay search whose provider array is longer than ten and wholly dropped
C14_Witness ==
    \E r \in Reqs :
        /\ service = "stays" /\ Reported(r) /\ HasResults(r)
        /\ SearchResponseOf(r).offers = <<>>
        /\ SearchResponseOf(r).total_results > 10
        /\ TextOf(r) = <<[k |-> "no_hotels", s |-> search_request[r].v.location]>>

(***************************************************************************)
(* The geocoding table on its own: stay searches for every city of the     *)
(* table in several spellings, and for names the table does not have.      *)
(***************************************************************************)
CityTable ==
    {
      [name |-> "new york", spellings |-> {"new york", "New York", "NEW YORK", "nEw yOrK"}, latitude |-> "40.7128", longitude |-> "-74.0060"],
      [name |-> "nyc", spellings |-> {"nyc", "Nyc", "NYC", "nYc"}, latitude |-> "40.7128", longitude |-> "-74.0060"],
      [name |-> "london", spellings |-> {"london", "London", "LONDON", "lOnDoN"}, latitude |-> "51.5074", longitude |-> "-0.1278"],
      [name |-> "paris", spellings |-> {"paris", "Paris", "PARIS", "pArIs"}, latitude |-> "48.8566", longitude |-> "2.3522"],
      [name |-> "tokyo", spellings |-> {"tokyo", "Tokyo", "TOKYO", "tOkYo"}, latitude |-> "35.6762", longitude |-> "139.6503"],
      [name |-> "sydney", spellings |-> {"sydney", "Sydney", "SYDNEY", "sYdNeY"}, latitude |-> "-33.8688", longitude |-> "151.2093"],
      [name |-> "los angeles", spellings |-> {"los angeles", "Los Angeles", "LOS ANGELES", "lOs aNgElEs"}, latitude |-> "34.0522", longitude |-> "-118.2437"],
      [name |-> "la", spellings |-> {"la", "La", "LA", "lA"}, latitude |-> "34.0522", longitude |-> "-118.2437"],
      [name |-> "chicago", spellings |-> {"chicago", "Chicago", "CHICAGO", "cHiCaGo"}, latitude |-> "41.8781", longitude |-> "-87.6298"],
      [name |-> "melbourne", spellings |-> {"melbourne", "Melbourne", "MELBOURNE", "mElBoUrNe"}, latitude |-> "-37.8136", longitude |-> "144.9631"],
      [name |-> "dubai", spellings |-> {"dubai", "Dubai", "DUBAI", "dUbAi"}, latitude |-> "25.2048", longitude |-> "55.2708"],
      [name |-> "singapore", spellings |-> {"singapore", "Singapore", "SINGAPORE", "sInGaPoRe"}, latitude |-> "1.3521", longitude |-> "103.8198"],
      [name |-> "miami", spellings |-> {"miami", "Miami", "MIAMI", "mIaMi"}, latitude |-> "25.7617", longitude |-> "-80.1918"],
      [name |-> "san francisco", spellings |-> {"san francisco", "San Francisco", "SAN FRANCISCO", "sAn fRaNcIsCo"}, latitude |-> "37.7749", longitude |-> "-122.4194"],
      [name |-> "las vegas", spellings |-> {"las vegas", "Las Vegas", "LAS VEGAS", "lAs vEgAs"}, latitude |-> "36.1699", longitude |-> "-115.1398"],
      [name |-> "toronto", spellings |-> {"toronto", "Toronto", "TORONTO", "tOrOnTo"}, latitude |-> "43.6532", longitude |-> "-79.3832"],
      [name |-> "berlin", spellings |-> {"berlin", "Berlin", "BERLIN", "bErLiN"}, latitude |-> "52.5200", longitude |-> "13.4050"],
      [name |-> "rome", spellings |-> {"rome", "Rome", "ROME", "rOmE"}, latitude |-> "41.9028", longitude |-> "12.4964"],
      [name |-> "madrid", spellings |-> {"madrid", "Madrid", "MADRID", "mAdRiD"}, latitude |-> "40.4168", longitude |-> "-3.7038"],
      [name |-> "amsterdam", spellings |-> {"amsterdam", "Amsterdam", "AMSTERDAM", "aMsTeRdAm"}, latitude |-> "52.3676", longitude |-> "4.9041"],
      [name |-> "barcelona", spellings |-> {"barcelona", "Barcelona", "BARCELONA", "bArCeLoNa"}, latitude |-> "41.3851", longitude |-> "2.1734"]}
TableSpellings == UNION {city.spellings : city \in CityTable}
OtherLocations ==
    {"Atlantis", "atlantis", "Lond0n", "Paris, France", "NewYork", "", " paris", "paris "}
GeocodeLocations == TableSpellings \cup OtherLocations
GeocodeRequests ==
    {WithId([method |-> Str("tools/call"),
             params |-> Obj([name |-> Str("search_stays"),
                             arguments |-> Put(StayArgs, "location", Str(l))])], Some(Num(7))) :
     l \in GeocodeLocations}
GeocodeReplies == FailedReplies \cup {Success(StayBody(<<StayItem(1, "ok")>>, StayMeta))}

InitGeocode == Init /\ service = "stays"
NextGeocode ==
    \E r \in Sequential :
        \/ Receive(r, GeocodeRequests)
        \/ StayPostReply(r, GeocodeReplies)
        \/ End(r)
SpecGeocode == InitGeocode /\ [][NextGeocode]_vars

(***************************************************************************)
(* C15: geocode_location maps every city of its fixed table, in any        *)
(* letter case, to the table's coordinates, and every other string to the  *)
(* coordinates of London (51.5074, -0.1278); it never fails, so every      *)
(* decoded stay search issues its POST with these coordinates.             *)
(***************************************************************************)
CoordinatesSent(r) ==
    Get(Get(Get(calls[r][1].body, "data"), "location"), "geographic_coordinates")
CoordinatesAre(r, latitude, longitude) ==
    /\ Get(CoordinatesSent(r), "latitude") = Float(latitude)
    /\ Get(CoordinatesSent(r), "longitude") = Float(longitude)
Geocoded(r) ==
    /\ service = "stays" /\ pc[r] # "idle"
    /\ CallsKnownTool(request[r]) /\ ~Undecodable(ArgumentsOf(request[r]))
    /\ ArgumentsOf(request[r]).t = "obj"
LocationAsked(r) == Get(ArgumentsOf(request[r]), "location").v

C15_GeocodeTableElseLondon ==
    \A r \in Reqs :
        Geocoded(r) =>
            /\ Len(calls[r]) = 1
            /\ \A city \in CityTable :
                   LocationAsked(r) \in city.spellings =>
                       CoordinatesAre(r, city.latitude, city.longitude)
            /\ LocationAsked(r) \notin TableSpellings =>
                   CoordinatesAre(r, "51.5074", "-0.1278")

\* a table city asked in capitals, away from London
C15_Witness ==
    \E r \in Reqs :
        /\ Geocoded(r)
        /\ LocationAsked(r) = "SAN FRANCISCO"
        /\ CoordinatesAre(r, "37.7749", "-122.4194")

(***************************************************************************)
(* Concurrent requests: warp runs handle_mcp_request once per inbound      *)
(* request, each on its own clone of the server, and the invocations       *)
(* interleave at their await points.  Every slot is in use.                *)
(***************************************************************************)
ConcIds == {Some(Num(7)), Some(Str("req-a"))}
ConcBodies(svc) ==
    {[method |-> Str("initialize")],
     [method |-> Str("initialize"), params |-> Obj([name |-> Str(ToolOf(svc))])],
     [method |-> Str("tools/list")],
     [method |-> Str("ping")],
     [method |-> Str("tools/call"),
      params |-> Obj([name |-> Str(ToolOf(svc)),
                      arguments |-> IF svc = "flights" THEN FlightArgs ELSE StayArgs])],
     [method |-> Str("tools/call"),
      params |-> Obj([name |-> Str(ToolOf(svc)), arguments |-> Null])]}
ConcRequests(svc) == {WithId(b, i) : b \in ConcBodies(svc), i \in ConcIds}
ConcFlightPostReplies ==
    {SendError,
     Success(Obj([data |-> Obj([id |-> Str("orq_1")])])),
     Success(Obj([data |-> Obj([id |-> Str("orq_2")])]))}
ConcFlightGetReplies ==
    {SendError,
     Success(Obj([data |-> Arr(<<FlightItem(1, "ok")>>)])),
     Success(Obj([data |-> Arr(<<FlightItem(1, "empty_slices")>>)]))}
ConcStayPostReplies ==
    {SendError,
     Success(StayBody(<<StayItem(1, "ok")>>, StayMeta)),
     Success(StayBody(<<>>, StayMeta))}

NextConc ==
    \E r \in Reqs :
        \/ Receive(r, ConcRequests(service))
        \/ FlightPostReply(r, ConcFlightPostReplies)
        \/ FlightGetReply(r, ConcFlightGetReplies)
        \/ StayPostReply(r, ConcStayPostReplies)
        \/ End(r)
SpecConc == Init /\ [][NextConc]_vars

(***************************************************************************)
(* C16: with several requests in flight, the response to each is           *)
(* determined by that request and the replies to its own outbound calls;   *)
(* no request reads or writes the state of another; every response carries *)
(* the id of its own request; and a request that waits on the provider     *)
(* never keeps another from completing.                                    *)
(***************************************************************************)
LocalsOf(r) ==
    <<pc[r], request[r], search_request[r], offer_request_id[r], calls[r], replies[r],
      search[r], response[r]>>

\* two invocations given the same request and the same replies stand alike
DeterminedByOwnInputs ==
    \A r1, r2 \in Reqs :
        (pc[r1] # "idle" /\ pc[r2] # "idle"
         /\ request[r1] = request[r2] /\ replies[r1] = replies[r2]) =>
            LocalsOf(r1) = LocalsOf(r2)

CarriesOwnId == \A r \in Reqs : response[r].some => response[r].v.id = IdOf(request[r])

\* whatever the other invocations wait for, this one can take its next step
NeverBlocked ==
    \A r \in Reqs :
        /\ pc[r] = "idle" => ENABLED Receive(r, ConcRequests(service))
        /\ (pc[r] = "await_post" /\ service = "flights") =>
               ENABLED FlightPostReply(r, ConcFlightPostReplies)
        /\ (pc[r] = "await_post" /\ service = "stays") =>
               ENABLED StayPostReply(r, ConcStayPostReplies)
        /\ pc[r] = "await_get" => ENABLED FlightGetReply(r, ConcFlightGetReplies)
        /\ Ended(r) => ENABLED End(r)

\* a step is a step of one invocation and leaves the locals of the others
TouchesOneInvocation ==
    \E r \in Reqs : \A q \in Reqs \ {r} : LocalsOf(q)' = LocalsOf(q)

C16_RequestsIndependent ==
    /\ [](DeterminedByOwnInputs /\ CarriesOwnId /\ NeverBlocked)
    /\ [][TouchesOneInvocation]_vars

\* one request waits on the provider while another, with another id, has
\* its search answered
C16_Witness ==
    \E r1, r2 \in Reqs :
        /\ pc[r1] \in {"await_post", "await_get"}
        /\ pc[r2] = "done" /\ SearchOk(r2)
        /\ IdOf(request[r1]) = Num(7)
        /\ IdOf(request[r2]) = Str("req-a")
        /\ response[r2].v.id = Str("req-a")

(***************************************************************************)
(* C17: initialize and tools/list issue no outbound call, change no state  *)
(* and return the static descriptor of the service: two such requests with *)
(* the same method and id get identical responses.                         *)
(***************************************************************************)
IsStatic(req) == Get(req, "method") \in {Str("initialize"), Str("tools/list")}
ServerInfoOf(svc) ==
    [name |-> IF svc = "flights" THEN "duffel-flights-mcp" ELSE "duffel-stays-mcp",
     version |-> "0.1.0"]
IsDescriptor(req, result) ==
    IF Get(req, "method") = Str("initialize")
    THEN result = [protocolVersion |-> "2024-11-05",
                   capabilities |-> [tools |-> <<>>],
                   serverInfo |-> ServerInfoOf(service)]
    ELSE /\ DOMAIN result = {"tools"}
         /\ Len(result.tools) = 1
         /\ result.tools[1].name = ToolOf(service)

C17_StaticDescriptor ==
    /\ \A r \in Reqs :
           (pc[r] # "idle" /\ IsStatic(request[r])) =>
               /\ pc[r] = "done"
               /\ calls[r] = <<>> /\ replies[r] = <<>>
               /\ search_request[r] = None /\ offer_request_id[r] = None /\ search[r] = None
               /\ response[r].some
               /\ DOMAIN response[r].v = {"jsonrpc", "result", "id"}
               /\ IsDescriptor(request[r], response[r].v.result)
    /\ \A r1, r2 \in Reqs :
           (pc[r1] # "idle" /\ pc[r2] # "idle"
            /\ IsStatic(request[r1])
            /\ Get(request[r1], "method") = Get(request[r2], "method")
            /\ IdOf(request[r1]) = IdOf(request[r2])) =>
               response[r1] = response[r2]

\* two initialize requests with the same id and different params
C17_Witness ==
    \E r1, r2 \in Reqs :
        /\ pc[r1] = "done" /\ pc[r2] = "done"
        /\ Get(request[r1], "method") = Str("initialize")
        /\ Get(request[r2], "method") = Str("initialize")
        /\ service = "stays"
        /\ IdOf(request[r1]) = IdOf(request[r2])
        /\ request[r1] # request[r2]
        /\ response[r1] = response[r2]

(***************************************************************************)
(* C18: for a provider item that has an id and an accommodation name, the  *)
(* stay offer's location is the provider's city name when present and the  *)
(* requested location otherwise; total_amount is the provider's cheapest   *)
(* rate amount, else "0.00"; currency the provider's, else "USD"; a        *)
(* missing rating leaves hotel_rating absent and never drops the item.     *)
(***************************************************************************)
StringOr(val, default) == IF val.t = "str" THEN val.v ELSE default
CityNameOf(item) ==
    Get(Get(Get(Get(item, "accommodation"), "location"), "address"), "city_name")
RatingOf(item) == Get(Get(item, "accommodation"), "rating")
OfferMadeFrom(r, item, offer) ==
    /\ offer.id = Get(item, "id").v
    /\ offer.hotel_name = Get(Get(item, "accommodation"), "name").v
    /\ offer.location = StringOr(CityNameOf(item), search_request[r].v.location)
    /\ offer.total_amount = StringOr(Get(item, "cheapest_rate_total_amount"), "0.00")
    /\ offer.currency = StringOr(Get(item, "cheapest_rate_currency"), "USD")
    /\ RatingOf(item) = Null => offer.hotel_rating = None
    /\ RatingOf(item).t = "num" => offer.hotel_rating = Some(RatingOf(item).n)

C18_StayDefaults ==
    \A r \in Reqs :
        (service = "stays" /\ SearchOk(r) /\ HasResults(r)) =>
            \A i \in 1..Len(ProviderResults(r)) :
                (i <= 10 /\ StayResolvable(ProviderResults(r)[i])) =>
                    \E j \in 1..Len(SearchResponseOf(r).offers) :
                        OfferMadeFrom(r, ProviderResults(r)[i], SearchResponseOf(r).offers[j])

\* an item without a city name, searched under another name than the
\* provider's city, next to an item that has one
C18_Witness ==
    \E r \in Reqs :
        /\ service = "stays" /\ SearchOk(r) /\ HasResults(r)
        /\ search_request[r].v.location = "Atlantis"
        /\ Len(SearchResponseOf(r).offers) >= 2
        /\ CityNameOf(ProviderResults(r)[1]) = Null
        /\ SearchResponseOf(r).offers[1].location = "Atlantis"
        /\ SearchResponseOf(r).offers[2].location = "Paris"

(***************************************************************************)
(* C19: the header of a report prints total_results, the full length of    *)
(* the provider's array, not the number of blocks that follow; the blocks  *)
(* are len(offers), at most min(N, 10), and as many as the header says     *)
(* only when nothing was cut or dropped.                                   *)
(***************************************************************************)
C19_HeaderCountsProviderItems ==
    \A r \in Reqs :
        (Reported(r) /\ HasResults(r) /\ SearchResponseOf(r).offers # <<>>) =>
            LET N == Len(ProviderResults(r))
                blocks == Len(SelectSeq(TextOf(r), IsItemLine))
            IN /\ TextOf(r)[1].k = "header"
               /\ TextOf(r)[1].n = N
               /\ blocks = Len(SearchResponseOf(r).offers)
               /\ blocks <= Smaller(N, 10)
               /\ (blocks = N) <=>
                      (N <= 10 /\ \A i \in 1..N : Resolvable(ProviderResults(r)[i]))

\* a header of more than ten over nine blocks: cut to ten, one dropped
C19_Witness ==
    \E r \in Reqs :
        /\ Reported(r) /\ HasResults(r)
        /\ Len(ProviderResults(r)) > 10
        /\ TextOf(r)[1].k = "header"
        /\ TextOf(r)[1].n = Len(ProviderResults(r))
        /\ Len(SelectSeq(TextOf(r), IsItemLine)) = 9

====
